---- MODULE Spec2Model ----
(***************************************************************************)
(* Model of sigmaExp.py: a batch utility that translates Sigma rules and   *)
(* either uploads them to CrowdStrike (create group / create rule) or      *)
(* exports them as query files for Rapid7, remembering in an SQLite table  *)
(* (the ledger) which rule content was last applied.                       *)
(*                                                                         *)
(* One behaviour of the model is a sequence of process runs of main().     *)
(* The ledger file, the cloned rule repository and the export directory    *)
(* survive from one run to the next; everything else is per run.           *)
(***************************************************************************)
EXTENDS Integers, Sequences, FiniteSets, TLC

\* ------------------------------------------------------------------------
\* Bounds of the model
\* ------------------------------------------------------------------------
MaxRules == 2     \* rule documents in the corpus
MaxTitles == 2    \* distinct rule titles
MaxBody == 2      \* distinct revisions of one rule document's text
MaxRuns == 3      \* process runs in one behaviour

RuleIds == 1..MaxRules
Titles == 1..MaxTitles
Bodies == 1..MaxBody

Backends == {"crowdstrike", "rapid7"}
Keywords == {"windows", "linux", "macos"}

\* A file path is modelled by the set of keywords its lower-cased text contains.
CorpusPaths == {{"windows"}, {"linux", "macos"}}

None == "None"

\* ------------------------------------------------------------------------
\* Pure helpers
\* ------------------------------------------------------------------------
\* Mutant: linux is looked for before windows.
determine_platform_linux_first(file_path) ==
    IF "linux" \in file_path THEN "linux"
    ELSE IF "windows" \in file_path THEN "windows"
    ELSE IF "macos" \in file_path THEN "mac"
    ELSE "unknown"

\* determine_platform: first match of windows, linux, macos wins.
determine_platform(file_path) ==
    IF "windows" \in file_path THEN "windows"
    ELSE IF "linux" \in file_path THEN "linux"
    ELSE IF "macos" \in file_path THEN "mac"
    ELSE "unknown"

\* The backend compiler: the query a backend produces for a document's text
\* (the text of document id at revision body).
Query(doc, b) == <<b, doc.id, doc.body>>

\* parser.parse(rule_content) for one document: the normalized rule.
Translate(doc, b) ==
    [id |-> doc.id, title |-> doc.title, queries |-> <<Query(doc, b)>>]

\* yaml.dump(parsed_rule): the serialized rule, the ledger's fingerprint.
Dump(rule) == <<"yaml", rule.id, rule.title, rule.queries>>

\* f"Sigma Rule Group - {rule_name} ({platform})"
GroupName(rule_name, platform) == <<"Sigma Rule Group", rule_name, platform>>

\* os.path.join(export_dir, f"{rule_name}.txt")
QueryFilename(rule_name) == <<"exported_queries", rule_name, "txt">>

\* Mutants: the profiles are selected the other way round.
pattern_severity_swapped(test_mode) == IF test_mode THEN 2 ELSE 1

\* pattern_severity / pattern_disposition chosen by the test switch
TestSeverity == 1
ProdSeverity == 2
TestDisposition == 200
ProdDisposition == 100
pattern_severity(test_mode) == IF ~test_mode THEN ProdSeverity ELSE TestSeverity
\* Mutant: the disposition codes of the two profiles are exchanged.
pattern_disposition_swapped(test_mode) == IF test_mode THEN 100 ELSE 200

pattern_disposition(test_mode) == IF ~test_mode THEN ProdDisposition ELSE TestDisposition

\* ------------------------------------------------------------------------
\* The ledger: table uploaded_rules, PRIMARY KEY id
\* ------------------------------------------------------------------------
Row(rule_id, rule_title, rule_content, b) ==
    [id |-> rule_id, title |-> rule_title, rule_content |-> rule_content, backend |-> b]

\* SELECT 1 ... WHERE id = ? AND backend = ?
rule_exists_in_db(table, rule_id, b) ==
    \E r \in table : r.id = rule_id /\ r.backend = b

\* SELECT rule_content ... WHERE id = ? AND backend = ?
get_rule_content_from_db(table, rule_id, b) ==
    IF rule_exists_in_db(table, rule_id, b)
    THEN (CHOOSE r \in table : r.id = rule_id /\ r.backend = b).rule_content
    ELSE None

\* The rows a REPLACE of a row with this key removes: the primary key is id.
PrimaryKeyConflict(r, rule_id, b) == r.id = rule_id

\* Mutant: the content of the source document is stored, not the dump passed in.
save_raw_rule_to_db(table, rule_id, rule_title, rule_content, b) ==
    {r \in table : r.id # rule_id} \cup {Row(rule_id, rule_title, <<"raw", rule_id>>, b)}

\* Mutant: INSERT without conflict resolution on a table without a key.
save_rule_to_db_insert(table, rule_id, rule_title, rule_content, b) ==
    table \cup {Row(rule_id, rule_title, rule_content, b)}

\* REPLACE INTO uploaded_rules (id, title, rule_content, backend) VALUES (...)
save_rule_to_db(table, rule_id, rule_title, rule_content, b) ==
    {r \in table : ~PrimaryKeyConflict(r, rule_id, b)}
        \cup {Row(rule_id, rule_title, rule_content, b)}

\* The decision of the dispatch loop: is the rule up to date in the ledger?
UpToDate(table, rule, b) ==
    /\ rule_exists_in_db(table, rule.id, b)
    /\ get_rule_content_from_db(table, rule.id, b) = Dump(rule)

\* ------------------------------------------------------------------------
\* State
\* ------------------------------------------------------------------------
VARIABLES
    pc,                   \* position of main(): "stopped" when no process runs
    args,                 \* parsed command line: [backend, test]
    corpus,               \* the cloned rule tree: sequence of rule documents
    sigma_rules,          \* result of load_sigma_rules
    parsed_rules,         \* result of parse_and_convert_rules
    i,                    \* index of the next rule of the dispatch loop, 0 before it
    created_rule_groups,  \* in-run cache: group name -> group id
    conn_open,            \* the sqlite connection is open
    db,                   \* uploaded_rules as the open connection sees it
    disk,                 \* uploaded_rules as committed to the ledger file
    export_dir,           \* files of the export directory: file name -> text
    log,                  \* calls issued by the current (or last) run, in order
    prev,                 \* the last run that reached the dispatch loop
    runs                  \* process runs started so far

vars == <<pc, args, corpus, sigma_rules, parsed_rules, i, created_rule_groups,
          conn_open, db, disk, export_dir, log, prev, runs>>

NoName == <<>>
NoQuery == <<>>

\* One entry of the call log.
Ev(op, idx, name, gid, sev, disp, query, rc) ==
    [op |-> op, idx |-> idx, name |-> name, gid |-> gid, sev |-> sev,
     disp |-> disp, query |-> query, rc |-> rc]

Mark(op, idx) == Ev(op, idx, NoName, 0, 0, 0, NoQuery, "")

\* A rule document of the corpus; ids are unique within a corpus.
Doc(id, title, body, path) == [id |-> id, title |-> title, body |-> body, path |-> path]

\* The corpora a fresh clone can deliver: every document at its first revision.
InitialCorpora == [RuleIds -> [title : Titles, path : CorpusPaths]]

CorpusOf(c) == [k \in RuleIds |-> Doc(k, c[k].title, 1, c[k].path)]

\* The corpora a pull can deliver: upstream edited the text of at most one document.
Pulled(c) ==
    {c} \cup {[c EXCEPT ![k].body = b] : k \in DOMAIN c, b \in Bodies}

NoPrev ==
    [backend |-> None, rules |-> <<>>, completed |-> FALSE, clean |-> FALSE,
     failed |-> {}, applied |-> {}]

Init ==
    /\ pc = "stopped"
    /\ args = [backend |-> "crowdstrike", test |-> FALSE]
    /\ corpus = <<>>
    /\ sigma_rules = <<>>
    /\ parsed_rules = <<>>
    /\ i = 0
    /\ created_rule_groups = <<>>
    /\ conn_open = FALSE
    /\ db = {}
    /\ disk = {}
    /\ export_dir = [exists |-> FALSE, files |-> <<>>]
    /\ log = <<>>
    /\ prev = NoPrev
    /\ runs = 0

\* ------------------------------------------------------------------------
\* main(): start-up, corpus acquisition, loading, translation
\* ------------------------------------------------------------------------
\* init_db: open the connection; CREATE TABLE IF NOT EXISTS keeps the rows.
init_db(table) == table

\* Argument parsing and init_db.
Start(b, t) ==
    /\ pc = "stopped"
    /\ runs < MaxRuns
    /\ runs' = runs + 1
    /\ args' = [backend |-> b, test |-> t]
    /\ conn_open' = TRUE
    /\ db' = init_db(disk)
    /\ sigma_rules' = <<>>
    /\ parsed_rules' = <<>>
    /\ i' = 0
    /\ created_rule_groups' = <<>>
    /\ log' = <<>>
    /\ pc' = "clone"
    /\ UNCHANGED <<corpus, disk, export_dir, prev>>

\* Mutant: the exception ends the process, no finally block runs.
RaiseUnguarded(calls) ==
    /\ log' = Append(calls, Mark("error", i))
    /\ pc' = "stopped"

\* An exception reaches the handler of main: it is logged, then finally runs.
Raise(calls) ==
    /\ log' = Append(calls, Mark("error", i))
    /\ pc' = "finally"

\* clone_or_update_sigma_repo succeeds: git clone, or git pull.
CloneOk ==
    /\ pc = "clone"
    /\ IF corpus = <<>>
       THEN \E c \in InitialCorpora : corpus' = CorpusOf(c)
       ELSE corpus' \in Pulled(corpus)
    /\ pc' = "load"
    /\ UNCHANGED <<runs, args, sigma_rules, parsed_rules, i, created_rule_groups,
                   conn_open, db, disk, export_dir, log, prev>>

\* git exits non-zero: CalledProcessError.
CloneFail ==
    /\ pc = "clone"
    /\ Raise(log)
    /\ UNCHANGED <<runs, args, corpus, sigma_rules, parsed_rules, i, created_rule_groups,
                   conn_open, db, disk, export_dir, prev>>

\* Mutant: the rule files are returned in the reverse of the enumeration order.
load_sigma_rules_reversed(tree) ==
    [k \in DOMAIN tree |->
        [doc |-> tree[Len(tree) + 1 - k],
         platform |-> determine_platform(tree[Len(tree) + 1 - k].path)]]

\* load_sigma_rules: (full_path, platform) per rule file, in enumeration order.
load_sigma_rules(tree) ==
    [k \in DOMAIN tree |-> [doc |-> tree[k], platform |-> determine_platform(tree[k].path)]]

Load ==
    /\ pc = "load"
    /\ sigma_rules' = load_sigma_rules(corpus)
    /\ pc' = "parse"
    /\ UNCHANGED <<runs, args, corpus, parsed_rules, i, created_rule_groups,
                   conn_open, db, disk, export_dir, log, prev>>

\* parse_and_convert_rules: every document is translated before dispatch starts.
parse_and_convert_rules(rules, b) ==
    [k \in DOMAIN rules |-> [rule |-> Translate(rules[k].doc, b),
                             platform |-> rules[k].platform]]

ParseOk ==
    /\ pc = "parse"
    /\ parsed_rules' = parse_and_convert_rules(sigma_rules, args.backend)
    /\ pc' = "enter"
    /\ UNCHANGED <<runs, args, corpus, sigma_rules, i, created_rule_groups,
                   conn_open, db, disk, export_dir, log, prev>>

\* Mutant: translation is interleaved with dispatch, the first rule has been
\* recorded when a later document fails to translate.
ParseFailLate ==
    /\ pc = "parse"
    /\ LET first == Translate(sigma_rules[1].doc, args.backend) IN
       /\ db' = save_rule_to_db(db, first.id, first.title, Dump(first), args.backend)
       /\ Raise(Append(log, Mark("save", 1)))
    /\ UNCHANGED <<runs, args, corpus, sigma_rules, parsed_rules, i, created_rule_groups,
                   conn_open, disk, export_dir, prev>>

\* A document fails to translate: the exception leaves parse_and_convert_rules.
ParseFail ==
    /\ pc = "parse"
    /\ Raise(log)
    /\ UNCHANGED <<runs, args, corpus, sigma_rules, parsed_rules, i, created_rule_groups,
                   conn_open, db, disk, export_dir, prev>>

\* ------------------------------------------------------------------------
\* process_rules_crowdstrike
\* ------------------------------------------------------------------------
Cur == parsed_rules[i]

InLoop(b) ==
    /\ pc = "dispatch"
    /\ args.backend = b
    /\ i \in DOMAIN parsed_rules

\* created_rule_groups = {} on entry.
EnterCrowdstrike ==
    /\ pc = "enter"
    /\ args.backend = "crowdstrike"
    /\ created_rule_groups' = <<>>
    /\ i' = 1
    /\ pc' = "dispatch"
    /\ UNCHANGED <<runs, args, corpus, sigma_rules, parsed_rules, conn_open, db, disk,
                   export_dir, log, prev>>

\* The rule is in the ledger with the same content: continue.
CsSkip ==
    /\ InLoop("crowdstrike")
    /\ UpToDate(db, Cur.rule, "crowdstrike")
    /\ log' = Append(log, Mark("skip", i))
    /\ i' = i + 1
    /\ UNCHANGED <<runs, pc, args, corpus, sigma_rules, parsed_rules, created_rule_groups,
                   conn_open, db, disk, export_dir, prev>>

\* Mutant: the cache is never consulted.
NeedsGroupAlways(cache, name) == TRUE

\* rule_group_name not in created_rule_groups
NeedsGroup(cache, name) == name \notin DOMAIN cache

\* The id the platform returns for a new group: fresh for every call.
NewGroupId(calls) ==
    Cardinality({k \in DOMAIN calls : calls[k].op = "create_group"}) + 1

GroupCall(idx, name, gid, rc) == Ev("create_group", idx, name, gid, 0, 0, NoQuery, rc)

\* The calls that resolve the rule's group, the cache and the group id afterwards.
ResolveGroup(cache, calls, idx, name) ==
    IF NeedsGroup(cache, name)
    THEN LET gid == NewGroupId(calls) IN
         [calls |-> Append(calls, GroupCall(idx, name, gid, "SUCCESS")),
          cache |-> [n \in DOMAIN cache \cup {name} |->
                        IF n = name THEN gid ELSE cache[n]],
          gid |-> gid]
    ELSE [calls |-> calls, cache |-> cache, gid |-> cache[name]]

\* custom_ioa.create_rule(...) with its arguments and the status it returned.
RuleCall(idx, rule, gid, test_mode, rc) ==
    Ev("create_rule", idx, <<"Sigma Rule", rule.title>>, gid,
       pattern_severity(test_mode), pattern_disposition(test_mode),
       rule.queries[1], rc)

\* create_rule_group raises, or its response has no resources: the loop is left.
CsGroupError ==
    /\ InLoop("crowdstrike")
    /\ ~UpToDate(db, Cur.rule, "crowdstrike")
    /\ LET name == GroupName(Cur.rule.title, Cur.platform) IN
       /\ NeedsGroup(created_rule_groups, name)
       /\ Raise(Append(log, GroupCall(i, name, 0, "ERROR")))
    /\ UNCHANGED <<runs, args, corpus, sigma_rules, parsed_rules, i, created_rule_groups,
                   conn_open, db, disk, export_dir, prev>>

\* create_rule returns rc = SUCCESS: the ledger row is written, then sleep(1).
CsCreateSuccess ==
    /\ InLoop("crowdstrike")
    /\ ~UpToDate(db, Cur.rule, "crowdstrike")
    /\ LET g == ResolveGroup(created_rule_groups, log, i,
                             GroupName(Cur.rule.title, Cur.platform))
       IN /\ created_rule_groups' = g.cache
          /\ log' = g.calls \o <<RuleCall(i, Cur.rule, g.gid, args.test, "SUCCESS"),
                                 Mark("save", i), Mark("sleep", i)>>
    /\ db' = save_rule_to_db(db, Cur.rule.id, Cur.rule.title, Dump(Cur.rule), "crowdstrike")
    /\ i' = i + 1
    /\ UNCHANGED <<runs, pc, args, corpus, sigma_rules, parsed_rules, conn_open, disk,
                   export_dir, prev>>

\* Mutant: the ledger row is written although create_rule did not succeed.
CsCreateFailedSaves ==
    /\ InLoop("crowdstrike")
    /\ ~UpToDate(db, Cur.rule, "crowdstrike")
    /\ LET g == ResolveGroup(created_rule_groups, log, i,
                             GroupName(Cur.rule.title, Cur.platform))
       IN /\ created_rule_groups' = g.cache
          /\ log' = g.calls \o <<RuleCall(i, Cur.rule, g.gid, args.test, "FAILED"),
                                 Mark("sleep", i)>>
    /\ db' = save_rule_to_db(db, Cur.rule.id, Cur.rule.title, Dump(Cur.rule), "crowdstrike")
    /\ i' = i + 1
    /\ UNCHANGED <<runs, pc, args, corpus, sigma_rules, parsed_rules, conn_open, disk,
                   export_dir, prev>>

\* Mutant: the delay is taken only after a successful create_rule.
CsCreateFailedNoSleep ==
    /\ InLoop("crowdstrike")
    /\ ~UpToDate(db, Cur.rule, "crowdstrike")
    /\ LET g == ResolveGroup(created_rule_groups, log, i,
                             GroupName(Cur.rule.title, Cur.platform))
       IN /\ created_rule_groups' = g.cache
          /\ log' = Append(g.calls, RuleCall(i, Cur.rule, g.gid, args.test, "FAILED"))
    /\ i' = i + 1
    /\ UNCHANGED <<runs, pc, args, corpus, sigma_rules, parsed_rules, conn_open, db, disk,
                   export_dir, prev>>

\* create_rule returns another status: logged, ledger untouched, then sleep(1).
CsCreateFailed ==
    /\ InLoop("crowdstrike")
    /\ ~UpToDate(db, Cur.rule, "crowdstrike")
    /\ LET g == ResolveGroup(created_rule_groups, log, i,
                             GroupName(Cur.rule.title, Cur.platform))
       IN /\ created_rule_groups' = g.cache
          /\ log' = g.calls \o <<RuleCall(i, Cur.rule, g.gid, args.test, "FAILED"),
                                 Mark("sleep", i)>>
    /\ i' = i + 1
    /\ UNCHANGED <<runs, pc, args, corpus, sigma_rules, parsed_rules, conn_open, db, disk,
                   export_dir, prev>>

\* create_rule raises, or its response has no meta.rc: the loop is left.
CsCreateError ==
    /\ InLoop("crowdstrike")
    /\ ~UpToDate(db, Cur.rule, "crowdstrike")
    /\ LET g == ResolveGroup(created_rule_groups, log, i,
                             GroupName(Cur.rule.title, Cur.platform))
       IN /\ created_rule_groups' = g.cache
          /\ Raise(Append(g.calls, RuleCall(i, Cur.rule, g.gid, args.test, "ERROR")))
    /\ UNCHANGED <<runs, args, corpus, sigma_rules, parsed_rules, i, conn_open, db, disk,
                   export_dir, prev>>

\* ------------------------------------------------------------------------
\* process_rules_rapid7
\* ------------------------------------------------------------------------
\* os.makedirs(export_dir) unless it exists.
EnterRapid7 ==
    /\ pc = "enter"
    /\ args.backend = "rapid7"
    /\ export_dir' = [export_dir EXCEPT !.exists = TRUE]
    /\ i' = 1
    /\ pc' = "dispatch"
    /\ UNCHANGED <<runs, args, corpus, sigma_rules, parsed_rules, created_rule_groups,
                   conn_open, db, disk, log, prev>>

R7Skip ==
    /\ InLoop("rapid7")
    /\ UpToDate(db, Cur.rule, "rapid7")
    /\ log' = Append(log, Mark("skip", i))
    /\ i' = i + 1
    /\ UNCHANGED <<runs, pc, args, corpus, sigma_rules, parsed_rules, created_rule_groups,
                   conn_open, db, disk, export_dir, prev>>

WriteCall(idx, rule, rc) ==
    Ev("write", idx, QueryFilename(rule.title), 0, 0, 0, rule.queries[1], rc)

\* Mutant: an existing file is kept as it is.
WriteFileKeep(files, name, text) ==
    [f \in DOMAIN files \cup {name} |-> IF f \in DOMAIN files THEN files[f] ELSE text]

\* open(query_filename, 'w') and write: the file is created or overwritten.
WriteFile(files, name, text) ==
    [f \in DOMAIN files \cup {name} |-> IF f = name THEN text ELSE files[f]]

\* The query is written to the file, then the ledger row is written.
R7Export ==
    /\ InLoop("rapid7")
    /\ ~UpToDate(db, Cur.rule, "rapid7")
    /\ export_dir' = [export_dir EXCEPT
                        !.files = WriteFile(@, QueryFilename(Cur.rule.title),
                                            Cur.rule.queries[1])]
    /\ log' = log \o <<WriteCall(i, Cur.rule, "SUCCESS"), Mark("save", i)>>
    /\ db' = save_rule_to_db(db, Cur.rule.id, Cur.rule.title, Dump(Cur.rule), "rapid7")
    /\ i' = i + 1
    /\ UNCHANGED <<runs, pc, args, corpus, sigma_rules, parsed_rules, created_rule_groups,
                   conn_open, disk, prev>>

\* Mutant: the ledger row is written before the file is opened.
R7WriteErrorSaves ==
    /\ InLoop("rapid7")
    /\ ~UpToDate(db, Cur.rule, "rapid7")
    /\ db' = save_rule_to_db(db, Cur.rule.id, Cur.rule.title, Dump(Cur.rule), "rapid7")
    /\ Raise(Append(log, WriteCall(i, Cur.rule, "ERROR")))
    /\ UNCHANGED <<runs, args, corpus, sigma_rules, parsed_rules, i, created_rule_groups,
                   conn_open, disk, export_dir, prev>>

\* open() raises OSError: nothing in the loop catches it, the loop is left.
R7WriteError ==
    /\ InLoop("rapid7")
    /\ ~UpToDate(db, Cur.rule, "rapid7")
    /\ Raise(Append(log, WriteCall(i, Cur.rule, "ERROR")))
    /\ UNCHANGED <<runs, args, corpus, sigma_rules, parsed_rules, i, created_rule_groups,
                   conn_open, db, disk, export_dir, prev>>

\* ------------------------------------------------------------------------
\* main(): end of the loop, and the finally block
\* ------------------------------------------------------------------------
\* The for loop of either process_rules function is exhausted.
LoopDone ==
    /\ pc = "dispatch"
    /\ i = Len(parsed_rules) + 1
    /\ pc' = "finally"
    /\ UNCHANGED <<runs, args, corpus, sigma_rules, parsed_rules, i, created_rule_groups,
                   conn_open, db, disk, export_dir, log, prev>>

Failed(calls) == {k \in DOMAIN calls : calls[k].rc \in {"FAILED", "ERROR"}}

\* What the run leaves for the next one to be compared with.
Summary ==
    IF i = 0 THEN prev
    ELSE [backend |-> args.backend, rules |-> parsed_rules,
          completed |-> i = Len(parsed_rules) + 1,
          clean |-> i = Len(parsed_rules) + 1 /\ Failed(log) = {},
          failed |-> {log[k].idx : k \in {c \in DOMAIN log : log[c].rc = "FAILED"}},
          applied |-> {log[k].idx : k \in {c \in DOMAIN log :
                          log[c].op \in {"create_rule", "write"} /\ log[c].rc = "SUCCESS"}}]

\* Mutant: the changes of the connection never reach the ledger file.
CommitLost(file, table) == file

\* conn.commit(): the connection's changes reach the ledger file.
Commit(file, table) == table

\* finally: conn.commit(); conn.close()
Finally ==
    /\ pc = "finally"
    /\ disk' = Commit(disk, db)
    /\ conn_open' = FALSE
    /\ log' = log \o <<Mark("commit", i), Mark("close", i)>>
    /\ prev' = Summary
    /\ pc' = "stopped"
    /\ UNCHANGED <<runs, args, corpus, sigma_rules, parsed_rules, i, created_rule_groups,
                   db, export_dir>>

Next ==
    \/ \E b \in Backends, t \in BOOLEAN : Start(b, t)
    \/ CloneOk
    \/ CloneFail
    \/ Load
    \/ ParseOk
    \/ ParseFail
    \/ EnterCrowdstrike
    \/ CsSkip
    \/ CsCreateFailed
    \/ CsCreateSuccess
    \/ CsGroupError
    \/ CsCreateError
    \/ EnterRapid7
    \/ R7Skip
    \/ R7Export
    \/ R7WriteError
    \/ LoopDone
    \/ Finally

Spec == Init /\ [][Next]_vars

TypeOK ==
    /\ pc \in {"stopped", "clone", "load", "parse", "enter", "dispatch", "finally"}
    /\ i \in 0..(MaxRules + 1)
    /\ conn_open \in BOOLEAN

\* ------------------------------------------------------------------------
\* Observations on a run
\* ------------------------------------------------------------------------
Running == pc # "stopped"
Dispatched == i >= 1
LoopCompleted == Dispatched /\ i = Len(parsed_rules) + 1 /\ pc \in {"finally", "stopped"}

\* Positions of the log holding a call of the given kinds.
CallsOf(ops) == {k \in DOMAIN log : log[k].op \in ops}
SinkOps == {"create_group", "create_rule", "write"}
ApplyOps == {"create_rule", "write"}

\* Calls issued on behalf of rule idx.
CallsFor(ops, idx) == {k \in CallsOf(ops) : log[k].idx = idx}

\* Rules the loop has dealt with: those before i, and the one an exception stopped at.
Processed ==
    {k \in DOMAIN parsed_rules :
        Dispatched /\ (k < i \/ (k = i /\ pc \in {"finally", "stopped"}))}
Skipped == {k \in Processed : CallsFor({"skip"}, k) # {}}
PassedToSink == Processed \ Skipped

\* The sink's apply call for rule idx succeeded in this run.
Applied(idx) == \E k \in CallsFor(ApplyOps, idx) : log[k].rc = "SUCCESS"
\* The sink invocation for rule idx failed in this run.
SinkFailed(idx) == \E k \in CallsFor(SinkOps, idx) : log[k].rc \in {"FAILED", "ERROR"}

RuleAt(k) == parsed_rules[k].rule

\* ------------------------------------------------------------------------
\* C1  Idempotence
\* ------------------------------------------------------------------------
\* This run dispatches for the same backend as the last dispatching run, on the
\* same translated corpus, and that run's loop went through the whole corpus.
SecondRunUnchanged ==
    /\ Running /\ Dispatched
    /\ prev.backend = args.backend
    /\ prev.rules = parsed_rules
    /\ prev.completed

\* C1 as stated: whenever dispatch runs twice in succession for one backend on an
\* unchanged corpus, the second run issues no create-group call, no create-rule
\* call and no file write.
C1_IdempotenceAsStated ==
    SecondRunUnchanged => CallsOf(SinkOps) = {}

\* C1 amended: if in the first of the two runs every sink invocation succeeded
\* (no create-rule call returned a non-success status), the second run issues
\* no sink call.
C1_Idempotence ==
    (SecondRunUnchanged /\ prev.clean) => CallsOf(SinkOps) = {}

\* A second run that went through the whole unchanged corpus skipping every rule.
C1_Witness ==
    /\ SecondRunUnchanged /\ prev.clean
    /\ LoopCompleted
    /\ Skipped = DOMAIN parsed_rules
    /\ Len(parsed_rules) = MaxRules

\* ------------------------------------------------------------------------
\* C2  Change detection
\* ------------------------------------------------------------------------
\* Number of apply calls (create-rule, file write) issued for rule idx.
ApplyCount(idx) == Cardinality(CallsFor(ApplyOps, idx))

\* The ledger as it was when the run started: nothing is committed before finally.
LedgerAtStart == disk

\* C2: at the end of a dispatch run, for every rule of the corpus, the sink has
\* been invoked for it if and only if the ledger had no entry for it under the
\* run's backend or the stored content differed from its serialized content, and
\* then its apply call (create-rule, file write) was issued exactly once.
C2_ChangeDetection ==
    (pc = "finally" /\ Dispatched) =>
        \A k \in DOMAIN parsed_rules :
            IF UpToDate(LedgerAtStart, RuleAt(k), args.backend)
            THEN CallsFor(SinkOps, k) = {}
            ELSE ApplyCount(k) = 1

\* ------------------------------------------------------------------------
\* C3  Partial-failure isolation
\* ------------------------------------------------------------------------
\* The ledger row of rule idx under backend b, as a set (empty when absent).
Entry(table, idx, b) == {r \in table : r.id = RuleAt(idx).id /\ r.backend = b}

\* C3: at the end of a dispatch run, for every rule whose sink invocation failed,
\* every rule enumerated after it has been processed, and its ledger entry is
\* what it was when the run started.
C3_PartialFailureIsolation ==
    (pc = "finally" /\ Dispatched) =>
        \A k \in DOMAIN parsed_rules :
            SinkFailed(k) =>
                /\ \A j \in DOMAIN parsed_rules : j > k => j \in Processed
                /\ Entry(db, k, args.backend) = Entry(LedgerAtStart, k, args.backend)

\* ------------------------------------------------------------------------
\* C8  Export-mode failure isolation
\* ------------------------------------------------------------------------
\* The file write for rule idx raised a filesystem error.
WriteFailed(idx) == \E k \in CallsFor({"write"}, idx) : log[k].rc = "ERROR"

\* C8: in a Rapid7 run, after a file write error for a rule the batch goes on:
\* the loop reaches the end of the corpus and the rule's ledger entry is unchanged.
C8_ExportFailureIsolation ==
    (pc = "finally" /\ Dispatched /\ args.backend = "rapid7") =>
        \A k \in DOMAIN parsed_rules :
            WriteFailed(k) =>
                /\ i = Len(parsed_rules) + 1
                /\ Entry(db, k, "rapid7") = Entry(LedgerAtStart, k, "rapid7")

\* ------------------------------------------------------------------------
\* C5  Ledger independence across backends
\* ------------------------------------------------------------------------
\* C5: no step of a run removes or changes a ledger row recorded under a backend
\* other than the backend of the run.
C5_LedgerIndependence ==
    [][\A r \in db : r.backend # args'.backend => r \in db']_vars

\* ------------------------------------------------------------------------
\* C4  Fingerprint integrity
\* ------------------------------------------------------------------------
\* The ledger a reader sees: the connection's view during a run, the file after.
Ledger == IF conn_open THEN db ELSE disk

\* C4: for every rule whose sink invocation succeeded in the run, the ledger
\* returns exactly the rule's serialized content for (id, backend), during the
\* rest of the run and after it, so the unchanged rule compares as up to date.
C4_FingerprintIntegrity ==
    \A k \in DOMAIN parsed_rules :
        Applied(k) =>
            /\ get_rule_content_from_db(Ledger, RuleAt(k).id, args.backend) = Dump(RuleAt(k))
            /\ UpToDate(Ledger, RuleAt(k), args.backend)

\* Every rule of the corpus was applied in a run that has ended, and the ledger
\* file returns the content of each.
C4_Witness ==
    /\ pc = "stopped"
    /\ Len(parsed_rules) = MaxRules
    /\ \A k \in DOMAIN parsed_rules :
          /\ Applied(k)
          /\ get_rule_content_from_db(disk, RuleAt(k).id, args.backend) = Dump(RuleAt(k))

\* ------------------------------------------------------------------------
\* C6  Group reuse
\* ------------------------------------------------------------------------
GroupNameOf(k) == GroupName(RuleAt(k).title, parsed_rules[k].platform)

\* C6: in a CrowdStrike run the number of create-group calls equals the number
\* of distinct group names among the rules passed to the sink, no name is
\* created twice, and every create-rule call carries the group id returned by
\* the one create-group call for its rule's group name.
C6_GroupReuse ==
    args.backend = "crowdstrike" =>
        /\ Cardinality(CallsOf({"create_group"}))
              = Cardinality({GroupNameOf(k) : k \in PassedToSink})
        /\ \A g, h \in CallsOf({"create_group"}) : log[g].name = log[h].name => g = h
        /\ \A c \in CallsOf({"create_rule"}) :
              \E g \in CallsOf({"create_group"}) :
                  /\ g < c
                  /\ log[g].name = GroupNameOf(log[c].idx)
                  /\ log[g].rc = "SUCCESS"
                  /\ log[c].gid = log[g].gid

\* Two rules with the same group name were both passed to the sink in one run:
\* one create-group call, two create-rule calls with its id.
C6_Witness ==
    /\ args.backend = "crowdstrike"
    /\ pc = "stopped"
    /\ \E j, k \in PassedToSink :
          /\ j < k
          /\ GroupNameOf(j) = GroupNameOf(k)
          /\ CallsFor({"create_rule"}, j) # {}
          /\ CallsFor({"create_rule"}, k) # {}
    /\ Cardinality(CallsOf({"create_group"})) = 1

\* ------------------------------------------------------------------------
\* C7  Guaranteed ledger finalization
\* ------------------------------------------------------------------------
\* C7: a process never stops with the connection open; when a run has stopped,
\* its log ends with its only commit followed by its only close, whatever
\* exception ended it, and every ledger row written in the run is in the ledger
\* file.
C7_LedgerFinalization ==
    (pc = "stopped" /\ runs > 0) =>
        /\ ~conn_open
        /\ Cardinality(CallsOf({"commit"})) = 1
        /\ Cardinality(CallsOf({"close"})) = 1
        /\ Len(log) >= 2
        /\ log[Len(log) - 1].op = "commit"
        /\ log[Len(log)].op = "close"
        /\ disk = db
        /\ \A k \in DOMAIN parsed_rules :
              CallsFor({"save"}, k) # {} =>
                  Row(RuleAt(k).id, RuleAt(k).title, Dump(RuleAt(k)), args.backend) \in disk

\* A run that wrote a ledger row, was then ended by an exception, and stopped
\* with the row committed.
C7_Witness ==
    /\ pc = "stopped"
    /\ CallsOf({"error"}) # {}
    /\ \E k \in DOMAIN parsed_rules :
          /\ CallsFor({"save"}, k) # {}
          /\ Row(RuleAt(k).id, RuleAt(k).title, Dump(RuleAt(k)), args.backend) \in disk
          /\ \E e \in CallsOf({"error"}) : \E w \in CallsFor({"save"}, k) : w < e

\* ------------------------------------------------------------------------
\* C9  First sync of a rule to CrowdStrike
\* ------------------------------------------------------------------------
\* Rule k had no crowdstrike row when the run started and its create-rule call
\* has returned SUCCESS.
FirstSync(k) ==
    /\ Running
    /\ args.backend = "crowdstrike"
    /\ ~rule_exists_in_db(LedgerAtStart, RuleAt(k).id, "crowdstrike")
    /\ Applied(k)

\* C9: for such a rule the run has issued exactly one create-group call for its
\* group name and exactly one create-rule call for it, the latter with
\* severity 1 and disposition 200 when test mode is on, and the ledger holds
\* the row (id, title, serialized content, "crowdstrike").
C9_FirstSync ==
    \A k \in DOMAIN parsed_rules :
        FirstSync(k) =>
            /\ Cardinality({g \in CallsOf({"create_group"}) :
                               log[g].name = GroupNameOf(k)}) = 1
            /\ Cardinality(CallsFor({"create_rule"}, k)) = 1
            /\ \A c \in CallsFor({"create_rule"}, k) :
                  args.test => log[c].sev = 1 /\ log[c].disp = 200
            /\ Row(RuleAt(k).id, RuleAt(k).title, Dump(RuleAt(k)), "crowdstrike") \in db

\* A first sync in test mode of the only rule passed to the sink so far.
C9_Witness ==
    /\ args.test
    /\ FirstSync(1)
    /\ PassedToSink = {1}
    /\ Cardinality(CallsOf({"create_group"})) = 1
    /\ \E c \in CallsFor({"create_rule"}, 1) : log[c].sev = 1 /\ log[c].disp = 200

\* ------------------------------------------------------------------------
\* C10  Export overwrite
\* ------------------------------------------------------------------------
\* Rule k was changed (absent from the ledger, or stored with other content)
\* when the run started.
ChangedAtStart(k) == ~UpToDate(LedgerAtStart, RuleAt(k), args.backend)

\* The last changed rule of the corpus that has the title of rule k.
LastChangedWithTitle(k) ==
    CHOOSE m \in DOMAIN parsed_rules :
        /\ ChangedAtStart(m) /\ RuleAt(m).title = RuleAt(k).title
        /\ \A n \in DOMAIN parsed_rules :
              (ChangedAtStart(n) /\ RuleAt(n).title = RuleAt(k).title) => n <= m

\* C10: when a Rapid7 run has gone through a corpus in which two changed rules
\* with distinct ids share a title, both were written to the same file, the
\* file holds the primary query of the one enumerated last, and each has its
\* own ledger row, so that both compare as up to date.
C10_ExportOverwrite ==
    /\ (pc = "finally" /\ args.backend = "rapid7" /\ LoopCompleted) =>
        \A j, k \in DOMAIN parsed_rules :
            (/\ j < k
             /\ RuleAt(j).id # RuleAt(k).id
             /\ RuleAt(j).title = RuleAt(k).title
             /\ ChangedAtStart(j) /\ ChangedAtStart(k)) =>
                /\ \E w \in CallsFor({"write"}, j), x \in CallsFor({"write"}, k) :
                      /\ w < x
                      /\ log[w].name = log[x].name
                      /\ log[w].rc = "SUCCESS" /\ log[x].rc = "SUCCESS"
                /\ export_dir.files[QueryFilename(RuleAt(k).title)]
                      = RuleAt(LastChangedWithTitle(k)).queries[1]
                /\ Row(RuleAt(j).id, RuleAt(j).title, Dump(RuleAt(j)), "rapid7") \in db
                /\ Row(RuleAt(k).id, RuleAt(k).title, Dump(RuleAt(k)), "rapid7") \in db
    /\ (pc = "stopped" /\ args.backend = "rapid7" /\ LoopCompleted) =>
        \A j, k \in DOMAIN parsed_rules :
            (/\ j < k
             /\ RuleAt(j).title = RuleAt(k).title
             /\ Applied(j) /\ Applied(k)) =>
                /\ UpToDate(disk, RuleAt(j), "rapid7")
                /\ UpToDate(disk, RuleAt(k), "rapid7")

\* Two changed rules with one title were exported in a completed run: the file
\* holds the query of the second, which differs from the query of the first.
C10_Witness ==
    /\ pc = "finally" /\ args.backend = "rapid7" /\ LoopCompleted
    /\ Len(parsed_rules) >= 2
    /\ RuleAt(1).title = RuleAt(2).title
    /\ ChangedAtStart(1) /\ ChangedAtStart(2)
    /\ RuleAt(1).queries[1] # RuleAt(2).queries[1]
    /\ export_dir.files[QueryFilename(RuleAt(2).title)] = RuleAt(2).queries[1]

\* ------------------------------------------------------------------------
\* Process termination (SIGKILL, SIGTERM, power loss): no finally block runs
\* ------------------------------------------------------------------------
\* What the ledger file holds once a connection is gone without a commit: the
\* transaction opened by the first REPLACE is rolled back.
Rollback(file, table) == file

\* The process is terminated between two steps of main.
Kill ==
    /\ pc # "stopped"
    /\ pc' = "stopped"
    /\ conn_open' = FALSE
    /\ db' = Rollback(disk, db)
    /\ log' = Append(log, Mark("kill", i))
    /\ prev' = Summary
    /\ UNCHANGED <<runs, args, corpus, sigma_rules, parsed_rules, i, created_rule_groups,
                   disk, export_dir>>

\* The process is terminated after create_rule succeeded on the platform and
\* before save_rule_to_db ran.
CsKillInFlight ==
    /\ InLoop("crowdstrike")
    /\ ~UpToDate(db, Cur.rule, "crowdstrike")
    /\ LET g == ResolveGroup(created_rule_groups, log, i,
                             GroupName(Cur.rule.title, Cur.platform))
       IN /\ created_rule_groups' = g.cache
          /\ log' = g.calls \o <<RuleCall(i, Cur.rule, g.gid, args.test, "SUCCESS"),
                                 Mark("kill", i)>>
    /\ pc' = "stopped"
    /\ conn_open' = FALSE
    /\ db' = Rollback(disk, db)
    /\ prev' = Summary
    /\ UNCHANGED <<runs, args, corpus, sigma_rules, parsed_rules, i, disk, export_dir>>

\* The process is terminated after the export file was written and before
\* save_rule_to_db ran.
R7KillInFlight ==
    /\ InLoop("rapid7")
    /\ ~UpToDate(db, Cur.rule, "rapid7")
    /\ export_dir' = [export_dir EXCEPT
                        !.files = WriteFile(@, QueryFilename(Cur.rule.title),
                                            Cur.rule.queries[1])]
    /\ log' = log \o <<WriteCall(i, Cur.rule, "SUCCESS"), Mark("kill", i)>>
    /\ pc' = "stopped"
    /\ conn_open' = FALSE
    /\ db' = Rollback(disk, db)
    /\ prev' = Summary
    /\ UNCHANGED <<runs, args, corpus, sigma_rules, parsed_rules, i, created_rule_groups,
                   disk>>

NextCrash ==
    \/ Next
    \/ Kill
    \/ CsKillInFlight
    \/ R7KillInFlight

SpecCrash == Init /\ [][NextCrash]_vars

\* ------------------------------------------------------------------------
\* C11  Crash window limited to the in-flight rule
\* ------------------------------------------------------------------------
\* The run was ended by process termination.
Killed == pc = "stopped" /\ CallsOf({"kill"}) # {}

\* C11: after a run was terminated, every rule whose sink call succeeded and
\* whose ledger update ran in that run is up to date in the ledger file, and a
\* rule applied to the sink but not up to date in the ledger file can only be
\* the rule that was in flight.
C11_CrashWindow ==
    Killed =>
        \A k \in DOMAIN parsed_rules :
            /\ (Applied(k) /\ CallsFor({"save"}, k) # {}) =>
                  UpToDate(disk, RuleAt(k), args.backend)
            /\ (Applied(k) /\ ~UpToDate(disk, RuleAt(k), args.backend)) => k = i

\* ------------------------------------------------------------------------
\* C12  Retry of failed rules
\* ------------------------------------------------------------------------
\* This run dispatches to CrowdStrike and so did the last dispatching run.
NextCrowdstrikeRun ==
    /\ Running /\ Dispatched
    /\ args.backend = "crowdstrike"
    /\ prev.backend = "crowdstrike"

\* Rule k of this run is rule k of the last dispatching run, content unchanged.
SameAsBefore(k) == k \in DOMAIN prev.rules /\ prev.rules[k].rule = RuleAt(k)

ProfileOf(c) == <<log[c].sev, log[c].disp>>

\* C13 as stated: every create-rule call uses the pair selected by the test
\* switch, and the pair of a test run has a severity code and a disposition code
\* that are both lower than the production codes.
C13_ProfilesAsStated ==
    \A c \in CallsOf({"create_rule"}) :
        /\ ProfileOf(c) \in {<<TestSeverity, TestDisposition>>,
                             <<ProdSeverity, ProdDisposition>>}
        /\ args.test => (log[c].sev < ProdSeverity /\ log[c].disp < ProdDisposition)

\* C13 amended: every create-rule call uses one of exactly two pairs selected by
\* the test switch, (1, 200) with it and (2, 100) without it: the test profile's
\* severity code is lower than the production one, its disposition code is higher.
C13_Profiles ==
    /\ \A c \in CallsOf({"create_rule"}) :
          ProfileOf(c) = IF args.test THEN <<TestSeverity, TestDisposition>>
                                      ELSE <<ProdSeverity, ProdDisposition>>
    /\ TestSeverity < ProdSeverity
    /\ TestDisposition > ProdDisposition

\* A test run whose create-rule call was accepted with the test profile.
C13_Witness ==
    /\ args.test
    /\ \E c \in CallsOf({"create_rule"}) :
          log[c].rc = "SUCCESS" /\ ProfileOf(c) = <<TestSeverity, TestDisposition>>

\* ------------------------------------------------------------------------
\* C14  Unconditional pacing
\* ------------------------------------------------------------------------
RemoteOps == {"create_group", "create_rule"}

\* The create-rule calls that returned a status, success or not.
Returned == {c \in CallsOf({"create_rule"}) : log[c].rc \in {"SUCCESS", "FAILED"}}

\* C14: in a CrowdStrike run, every create-rule call that returned, with success
\* or with a non-success status, is followed by exactly one pacing delay for its
\* rule, taken before any further remote call; there are no other delays, and a
\* skipped rule incurs none.
C14_Pacing ==
    args.backend = "crowdstrike" =>
        /\ \A c \in Returned :
              /\ Cardinality(CallsFor({"sleep"}, log[c].idx)) = 1
              /\ \E s \in CallsFor({"sleep"}, log[c].idx) :
                    /\ s > c
                    /\ \A r \in CallsOf(RemoteOps) : r > c => r > s
        /\ Cardinality(CallsOf({"sleep"})) = Cardinality(Returned)
        /\ \A k \in Skipped : CallsFor({"sleep"}, k) = {}

\* A run in which a create-rule call returned a non-success status, the delay was
\* taken and a further remote call followed, and a create-rule call succeeded.
C14_Witness ==
    /\ args.backend = "crowdstrike"
    /\ \E c \in Returned :
          /\ log[c].rc = "FAILED"
          /\ \E r \in CallsOf(RemoteOps) : r > c
    /\ \E c \in Returned : log[c].rc = "SUCCESS"

\* ------------------------------------------------------------------------
\* C15  Sequential, order-preserving dispatch
\* ------------------------------------------------------------------------
\* The calls issued on behalf of one rule of the dispatch loop.
RuleOps == SinkOps \cup {"skip", "save", "sleep"}

\* C15: the translated rules are the documents of the corpus in enumeration
\* order; the calls of a run are issued in that order, every call for a rule
\* before any call for a later rule; and within one rule the ledger update
\* follows the successful apply call, so that sink invocations and ledger writes
\* occur in enumeration order.
C15_SequentialDispatch ==
    /\ parsed_rules # <<>> =>
          /\ Len(parsed_rules) = Len(corpus)
          /\ \A k \in DOMAIN parsed_rules : RuleAt(k).id = corpus[k].id
    /\ \A p, q \in CallsOf(RuleOps) : p < q => log[p].idx <= log[q].idx
    /\ \A s \in CallsOf({"save"}) :
          \E a \in CallsFor(ApplyOps, log[s].idx) :
              /\ a < s
              /\ log[a].rc = "SUCCESS"
              /\ \A c \in CallsOf(SinkOps) : c < s => c <= a
    /\ \A k \in Processed : k < i => CallsFor(RuleOps, k) # {}

\* A run that applied and recorded two rules one after the other.
C15_Witness ==
    /\ LoopCompleted
    /\ Len(parsed_rules) >= 2
    /\ \A k \in DOMAIN parsed_rules : Applied(k) /\ CallsFor({"save"}, k) # {}
    /\ corpus[1].id # corpus[2].id

\* ------------------------------------------------------------------------
\* C16  Ledger key uniqueness
\* ------------------------------------------------------------------------
\* At most one row of the table per (id, backend).
UniqueKeys(table) ==
    \A r1, r2 \in table : (r1.id = r2.id /\ r1.backend = r2.backend) => r1 = r2

\* Rule k was written to the ledger by the current (or last) run.
Saved(k) == CallsFor({"save"}, k) # {}

\* C16: the ledger, as the connection sees it and as committed to the file, has
\* at most one entry per (rule id, backend); after a put for a rule the entry of
\* its key is exactly the row put, whether or not the key had an entry before.
C16_KeyUniqueness ==
    /\ UniqueKeys(db)
    /\ UniqueKeys(disk)
    /\ \A k \in DOMAIN parsed_rules :
          Saved(k) =>
              Entry(db, k, args.backend) =
                  {Row(RuleAt(k).id, RuleAt(k).title, Dump(RuleAt(k)), args.backend)}

\* A put for a key whose entry held other content when the run started.
C16_Witness ==
    /\ Running
    /\ \E k \in DOMAIN parsed_rules :
          /\ Saved(k)
          /\ Entry(disk, k, args.backend) # {}
          /\ Entry(disk, k, args.backend) # Entry(db, k, args.backend)
          /\ Cardinality(Entry(db, k, args.backend)) = 1

\* ------------------------------------------------------------------------
\* C17  Translation failure aborts before any dispatch
\* ------------------------------------------------------------------------
\* The rule files were loaded and the translation of one of them raised.
TranslationFailed ==
    /\ pc \in {"finally", "stopped"}
    /\ sigma_rules # <<>>
    /\ parsed_rules = <<>>
    /\ CallsOf({"error"}) # {}

\* C17: in a run whose translation step raised, the dispatch loop was never
\* entered: no sink call and no ledger write was issued for any rule, and the
\* ledger the connection is about to commit is the ledger the run started with.
C17_TranslationAbort ==
    TranslationFailed =>
        /\ ~Dispatched
        /\ CallsOf(SinkOps \cup {"save", "skip", "sleep"}) = {}
        /\ db = disk

\* A translation failure in a run that started with a non-empty ledger and a
\* corpus of at least two documents.
C17_Witness ==
    /\ TranslationFailed
    /\ pc = "finally"
    /\ Len(sigma_rules) >= 2
    /\ disk # {}

\* ------------------------------------------------------------------------
\* C18  Ledger soundness
\* ------------------------------------------------------------------------
\* The step issues an apply call for a rule with the key and content of row r,
\* and the call completes successfully.
AppliedInStep(r) ==
    \E c \in (Len(log) + 1)..Len(log') :
        /\ log'[c].op \in ApplyOps
        /\ log'[c].rc = "SUCCESS"
        /\ log'[c].idx \in DOMAIN parsed_rules
        /\ RuleAt(log'[c].idx).id = r.id
        /\ Dump(RuleAt(log'[c].idx)) = r.rule_content
        /\ log'[c].query = RuleAt(log'[c].idx).queries[1]
        /\ args.backend = r.backend

\* C18: the ledger starts empty, and a row enters the connection's view of the
\* ledger only by being read from the ledger file or in a step whose apply call
\* for that rule, content and backend succeeded, and enters the ledger file only
\* from the connection's view; so every ledger entry stands for a successful sink
\* invocation of this or an earlier run, and a skipped rule or a failed sink call
\* writes nothing.
C18_LedgerSoundness ==
    [][/\ \A r \in db' \ db : r \in disk \/ AppliedInStep(r)
       /\ \A r \in disk' \ disk : r \in db]_vars

\* A run that recorded a rule it applied and recorded nothing for a rule whose
\* sink call failed.
C18_Witness ==
    /\ \E k \in DOMAIN parsed_rules :
          Applied(k) /\ Saved(k) /\ Entry(db, k, args.backend) # {}
    /\ \E k \in DOMAIN parsed_rules :
          SinkFailed(k) /\ Entry(db, k, args.backend) = {}

\* ------------------------------------------------------------------------
\* Platform inference on arbitrary paths
\* ------------------------------------------------------------------------
\* Every combination of the three keywords being present in a path or absent.
AllPaths == SUBSET Keywords

\* A run that has cloned a rule tree whose files lie under arbitrary paths and
\* is about to load it.
InitPlatform ==
    /\ pc = "load"
    /\ args \in [backend : Backends, test : {FALSE}]
    /\ \E c \in [RuleIds -> [title : Titles, path : AllPaths]] : corpus = CorpusOf(c)
    /\ sigma_rules = <<>>
    /\ parsed_rules = <<>>
    /\ i = 0
    /\ created_rule_groups = <<>>
    /\ conn_open = TRUE
    /\ db = init_db({})
    /\ disk = {}
    /\ export_dir = [exists |-> FALSE, files |-> <<>>]
    /\ log = <<>>
    /\ prev = NoPrev
    /\ runs = 1

SpecPlatform == InitPlatform /\ [][Load]_vars

\* ------------------------------------------------------------------------
\* C19  Platform inference priority
\* ------------------------------------------------------------------------
\* C19: for every loaded rule file, the platform is "windows" whenever the path
\* contains "windows"; otherwise "linux" when it contains "linux"; otherwise
\* "mac" when it contains "macos"; otherwise "unknown".
C19_PlatformPriority ==
    \A k \in DOMAIN sigma_rules :
        LET p == sigma_rules[k].doc.path
            v == sigma_rules[k].platform
        IN /\ v \in {"windows", "linux", "mac", "unknown"}
           /\ "windows" \in p => v = "windows"
           /\ ("windows" \notin p /\ "linux" \in p) => v = "linux"
           /\ ("windows" \notin p /\ "linux" \notin p /\ "macos" \in p) => v = "mac"
           /\ ("windows" \notin p /\ "linux" \notin p /\ "macos" \notin p) => v = "unknown"

\* A loaded tree with a path holding all three keywords and a path holding none.
C19_Witness ==
    /\ pc = "parse"
    /\ \E k \in DOMAIN sigma_rules :
          sigma_rules[k].doc.path = Keywords /\ sigma_rules[k].platform = "windows"
    /\ \E k \in DOMAIN sigma_rules :
          sigma_rules[k].doc.path = {} /\ sigma_rules[k].platform = "unknown"
====
